---------------------------- MODULE Spec2Model ----------------------------
(***************************************************************************)
(* NumCode v4 (src/numcode.py): the text <-> wire-token codec (tokenize,   *)
(* encode, decode) and the 10x20 ideogram grid / strip codec (id_to_cells, *)
(* create_strip, read_header, read_block, read_strip).                     *)
(*                                                                         *)
(* Representation.  A Python str is a sequence of one-character strings.   *)
(* A Python int >= 0 is the sequence of its decimal digits, least          *)
(* significant first, without high zeros (zero is << >>): the grid carries *)
(* values up to 9,999,999,999, beyond the range of TLC's integers.  An     *)
(* image is its width and the set of its ink (value 0) pixels <<x, y>>.    *)
(***************************************************************************)
EXTENDS Integers, Sequences, FiniteSets, TLC

VARIABLES pc, text, lang, raw, result, not_found,
          token_list, lang_arg, data_type, img,
          lang_r, dtype_r, content_r,
          numcode_str, words, decoded,
          number, suffix, cells, rb

vars == <<pc, text, lang, raw, result, not_found,
          token_list, lang_arg, data_type, img,
          lang_r, dtype_r, content_r,
          numcode_str, words, decoded,
          number, suffix, cells, rb>>

-----------------------------------------------------------------------------
(* Bounds of the model.                                                    *)

\* longest input text, in characters
MaxText == 4
\* longest wire sequence handed to create_strip / decode directly
MaxItems == 2
\* most nonzero decimal digits of a value drawn for the grid codec
MaxNonzero == 2

-----------------------------------------------------------------------------
(* Python values.                                                          *)

None == "<None>"

Truthy(x) == x # None /\ x # ""

DigitChars == <<"0", "1", "2", "3", "4", "5", "6", "7", "8", "9">>

DigitSet == {DigitChars[i] : i \in 1..10}

DigitValue == [ch \in DigitSet |-> (CHOOSE i \in 1..10 : DigitChars[i] = ch) - 1]

IsDigit(ch) == ch \in DigitSet

DigitVal(ch) == DigitValue[ch]

Reverse(s) == [i \in 1..Len(s) |-> s[Len(s) + 1 - i]]

SetMax(S) == CHOOSE m \in S : \A x \in S : x <= m

\* drop the high zeros of a digit sequence
StripHigh(ds) ==
    LET nz == {i \in 1..Len(ds) : ds[i] # 0}
    IN  IF nz = {} THEN << >> ELSE SubSeq(ds, 1, SetMax(nz))

\* int(num_str) for a non-empty string of decimal digits
PyInt(num_str) ==
    StripHigh(Reverse([i \in 1..Len(num_str) |-> DigitVal(num_str[i])]))

\* str(n) for an int n >= 0
PyStr(n) ==
    IF n = << >> THEN <<"0">>
    ELSE Reverse([i \in 1..Len(n) |-> DigitChars[n[i] + 1]])

\* (n // 10^k) % 10
DigitAt(n, k) == IF k + 1 <= Len(n) THEN n[k + 1] ELSE 0

RECURSIVE AddAt(_, _, _)
\* n + v * 10^k, for 0 <= v <= 10
AddAt(n, v, k) ==
    IF v = 0 THEN n
    ELSE LET m == IF Len(n) > k + 1 THEN Len(n) ELSE k + 1
             sum == DigitAt(n, k) + v
             With(d) == [i \in 1..m |-> IF i = k + 1 THEN d ELSE DigitAt(n, i - 1)]
         IN  IF sum < 10 THEN StripHigh(With(sum))
             ELSE AddAt(With(sum - 10), 1, k + 1)

RECURSIVE ToNat(_)
\* the value of a small int as a TLC number
ToNat(n) == IF n = << >> THEN 0 ELSE n[1] + 10 * ToNat(Tail(n))

RECURSIVE FromNat(_)
FromNat(k) == IF k = 0 THEN << >> ELSE <<k % 10>> \o FromNat(k \div 10)

-----------------------------------------------------------------------------
(* Grid coordinates (Protocol Spec v6.8): <<key, <<row, col>>>> in the     *)
(* tables' insertion order, which is the order their inverses are probed.  *)

LANG_CELLS == << <<"ar", <<1, 5>>>>, <<"zh", <<1, 6>>>>, <<"fr", <<1, 7>>>>,
                 <<"pt", <<1, 8>>>>, <<"es", <<1, 9>>>>, <<"eng", <<1, 10>>>> >>

DATA_TYPES == << <<"bin", <<18, 6>>>>, <<"enc", <<18, 7>>>>,
                 <<"so", <<18, 8>>>>, <<"im", <<18, 9>>>> >>

SUFFIXES == << <<"s", <<13, 7>>>>, <<"r", <<13, 8>>>>, <<"n", <<13, 9>>>> >>

POS_UNITS == << <<9, <<14, 7>>>>, <<8, <<14, 8>>>>, <<7, <<14, 9>>>>,
                <<6, <<15, 7>>>>, <<5, <<15, 8>>>>, <<4, <<15, 9>>>>,
                <<3, <<16, 7>>>>, <<2, <<16, 8>>>>, <<1, <<16, 9>>>> >>

POS_TENS_LOW == << <<1, <<17, 6>>>>, <<2, <<16, 6>>>>, <<3, <<15, 6>>>>,
                   <<4, <<14, 6>>>>, <<5, <<13, 6>>>> >>

POS_TENS_HIGH == << <<6, <<12, 6>>>>, <<7, <<12, 7>>>>,
                    <<8, <<12, 8>>>>, <<9, <<12, 9>>>> >>

\* <<k, col>>: the place 10^k and its column, hundreds through billions
PLACES == << <<2, 7>>, <<3, 8>>, <<4, 9>>, <<5, 6>>,
             <<6, 5>>, <<7, 4>>, <<8, 3>>, <<9, 2>> >>

HasKey(table, key) == \E i \in 1..Len(table) : table[i][1] = key

Lookup(table, key) == table[CHOOSE i \in 1..Len(table) : table[i][1] = key][2]

PlaceRow_OffByOne(digit) == 12 - (digit - 1)

\* row 11-(digit-1) of a place column
PlaceRow(digit) == 11 - (digit - 1)

-----------------------------------------------------------------------------
(* id_to_cells                                                             *)

UnitsCells(n) ==
    LET u == DigitAt(n, 0)
    IN  IF u > 0 THEN <<Lookup(POS_UNITS, u)>> ELSE << >>

TensCells(n) ==
    LET d == DigitAt(n, 1)
    IN  IF d > 0
        THEN IF d <= 5 THEN <<Lookup(POS_TENS_LOW, d)>>
                       ELSE <<Lookup(POS_TENS_HIGH, d)>>
        ELSE << >>

RECURSIVE PlaceCells(_, _)
PlaceCells(n, i) ==
    IF i > Len(PLACES) THEN << >>
    ELSE LET digit == DigitAt(n, PLACES[i][1])
         IN  (IF digit > 0 THEN << <<PlaceRow(digit), PLACES[i][2]>> >> ELSE << >>)
             \o PlaceCells(n, i + 1)

id_to_cells(n) == UnitsCells(n) \o TensCells(n) \o PlaceCells(n, 1)

-----------------------------------------------------------------------------
(* Images: Image.new('1', (w, 20), color=1), px[x, y] = 0, img.paste.      *)

NewImage(w) == [w |-> w, ink |-> {}]

SetInk(im, x, y) == [im EXCEPT !.ink = @ \cup {<<x, y>>}]

Paste(im, block, x0) ==
    [im EXCEPT !.ink =
        {p \in @ : ~(p[1] >= x0 /\ p[1] < x0 + block.w)}
        \cup {<<p[1] + x0, p[2]>> : p \in
                 {q \in block.ink : q[1] + x0 < im.w}}]

\* read_cell: pixels[block_x*10+(col-1), row-1] == 0
read_cell(pixels, block_x, row, col) ==
    <<block_x * 10 + (col - 1), row - 1>> \in pixels.ink

-----------------------------------------------------------------------------
(* Characters.                                                             *)

UPPER == <<"A", "B", "N", "R", "S">>

LOWER == <<"a", "b", "n", "r", "s">>

IsUpper(ch) == \E i \in 1..Len(UPPER) : UPPER[i] = ch

IsLower(ch) == \E i \in 1..Len(LOWER) : LOWER[i] = ch

\* ch.lower()
LowerCh(ch) ==
    IF IsUpper(ch) THEN LOWER[CHOOSE i \in 1..Len(UPPER) : UPPER[i] = ch] ELSE ch

\* ch.upper()
UpperCh(ch) ==
    IF IsLower(ch) THEN UPPER[CHOOSE i \in 1..Len(LOWER) : LOWER[i] = ch] ELSE ch

LowerStr(s) == [i \in 1..Len(s) |-> LowerCh(s[i])]

\* ''.join(ch for ch in token if ch.isdigit())
SelectDigits(token) == SelectSeq(token, IsDigit)

\* the scan  for ch in token: if ch in letters: suffix = ch  (the last wins)
LastIn(token, letters, sfx) ==
    LET hits == {i \in 1..Len(token) : token[i] \in letters}
    IN  IF hits = {} THEN sfx ELSE token[SetMax(hits)]

RECURSIVE Join(_)
\* ' '.join(items)
Join(items) ==
    IF items = << >> THEN << >>
    ELSE IF Len(items) = 1 THEN items[1]
    ELSE items[1] \o <<" ">> \o Join(Tail(items))

RECURSIVE Split(_, _)
\* s.split(): the maximal runs of non-blank characters (cur is the run so far)
Split(s, cur) ==
    IF s = << >> THEN (IF cur = << >> THEN << >> ELSE <<cur>>)
    ELSE IF Head(s) = " "
         THEN (IF cur = << >> THEN << >> ELSE <<cur>>) \o Split(Tail(s), << >>)
         ELSE Split(Tail(s), Append(cur, Head(s)))

-----------------------------------------------------------------------------
(* create_strip                                                            *)

HasHeader(lg, dt) == Truthy(lg) \/ Truthy(dt)

StripSuffix(token) ==
    LET ch == LastIn(token, {"s", "n", "r", "S", "N", "R"}, None)
    IN  IF ch = None THEN None ELSE LowerCh(ch)

\* the cells of one data block: id_to_cells plus the tag marker
BlockCells(token) ==
    LET sfx == StripSuffix(token)
    IN  id_to_cells(PyInt(SelectDigits(token)))
        \o (IF Truthy(sfx) /\ HasKey(SUFFIXES, sfx)
            THEN <<Lookup(SUFFIXES, sfx)>> ELSE << >>)

RECURSIVE DrawCells(_, _)
DrawCells(block, cs) ==
    IF cs = << >> THEN block
    ELSE LET row == Head(cs)[1]
             col == Head(cs)[2]
         IN  DrawCells(IF 0 <= row - 1 /\ row - 1 < 20 /\ 0 <= col - 1 /\ col - 1 < 10
                       THEN SetInk(block, col - 1, row - 1) ELSE block,
                       Tail(cs))

HeaderBlock_ColumnOffByOne(lg, dt) ==
    LET h0 == NewImage(10)
        h1 == IF Truthy(lg) /\ HasKey(LANG_CELLS, lg)
              THEN SetInk(h0, Lookup(LANG_CELLS, lg)[2], Lookup(LANG_CELLS, lg)[1] - 1)
              ELSE h0
    IN  IF Truthy(dt) /\ HasKey(DATA_TYPES, dt)
        THEN SetInk(h1, Lookup(DATA_TYPES, dt)[2], Lookup(DATA_TYPES, dt)[1] - 1)
        ELSE h1

HeaderBlock(lg, dt) ==
    LET h0 == NewImage(10)
        h1 == IF Truthy(lg) /\ HasKey(LANG_CELLS, lg)
              THEN SetInk(h0, Lookup(LANG_CELLS, lg)[2] - 1, Lookup(LANG_CELLS, lg)[1] - 1)
              ELSE h0
    IN  IF Truthy(dt) /\ HasKey(DATA_TYPES, dt)
        THEN SetInk(h1, Lookup(DATA_TYPES, dt)[2] - 1, Lookup(DATA_TYPES, dt)[1] - 1)
        ELSE h1

RECURSIVE DrawTokens(_, _, _, _)
DrawTokens(im, tl, i, offset) ==
    IF i > Len(tl) THEN im
    ELSE IF SelectDigits(tl[i]) = << >>
         THEN DrawTokens(im, tl, i + 1, offset)
         ELSE DrawTokens(Paste(im, DrawCells(NewImage(10), BlockCells(tl[i])),
                               ((i - 1) + offset) * 10),
                         tl, i + 1, offset)

StripTotal(tl, lg, dt) == Len(tl) + (IF HasHeader(lg, dt) THEN 1 ELSE 0)

create_strip(tl, lg, dt) ==
    LET canvas == NewImage(10 * StripTotal(tl, lg, dt))
        headed == IF HasHeader(lg, dt)
                  THEN Paste(canvas, HeaderBlock(lg, dt), 0) ELSE canvas
    IN  DrawTokens(headed, tl, 1, IF HasHeader(lg, dt) THEN 1 ELSE 0)

-----------------------------------------------------------------------------
(* read_header, read_block, read_strip                                     *)

RECURSIVE FirstLit(_, _, _, _, _)
\* the key of the first entry of the table, from i on, whose cell is ink;
\* dflt when the loop ends without a break
FirstLit(pixels, block_x, table, i, dflt) ==
    IF i > Len(table) THEN dflt
    ELSE IF read_cell(pixels, block_x, table[i][2][1], table[i][2][2])
         THEN table[i][1]
         ELSE FirstLit(pixels, block_x, table, i + 1, dflt)

read_header(pixels, block_x) ==
    <<FirstLit(pixels, block_x, LANG_CELLS, 1, None),
      FirstLit(pixels, block_x, DATA_TYPES, 1, None)>>

ReadUnits(pixels, block_x) == FirstLit(pixels, block_x, POS_UNITS, 1, 0)

ReadTens_LowOnly(pixels, block_x) ==
    FirstLit(pixels, block_x, POS_TENS_LOW, 1, 0)

\* tens high first; the low range only if not found
ReadTens(pixels, block_x) ==
    LET hi == FirstLit(pixels, block_x, POS_TENS_HIGH, 1, 0)
    IN  IF hi # 0 THEN hi ELSE FirstLit(pixels, block_x, POS_TENS_LOW, 1, 0)

RECURSIVE ReadPlaceDigit(_, _, _, _, _)
\* for v in range(1,10): the first v whose cell of the column is ink, or 0
ReadPlaceDigit(pixels, block_x, k, col, v) ==
    IF v > 9 THEN 0
    ELSE IF k = 5 /\ PlaceRow(v) >= 12
         THEN ReadPlaceDigit(pixels, block_x, k, col, v + 1)
         ELSE IF read_cell(pixels, block_x, PlaceRow(v), col) THEN v
         ELSE ReadPlaceDigit(pixels, block_x, k, col, v + 1)

RECURSIVE ReadPlaces(_, _, _, _)
ReadPlaces(pixels, block_x, n, i) ==
    IF i > Len(PLACES) THEN n
    ELSE ReadPlaces(pixels, block_x,
                    AddAt(n, ReadPlaceDigit(pixels, block_x, PLACES[i][1],
                                            PLACES[i][2], 1),
                          PLACES[i][1]),
                    i + 1)

ReadSuffix(pixels, block_x) == FirstLit(pixels, block_x, SUFFIXES, 1, "b")

read_block(pixels, block_x) ==
    LET n1 == AddAt(<< >>, ReadUnits(pixels, block_x), 0)
        n2 == AddAt(n1, ReadTens(pixels, block_x), 1)
    IN  <<ReadPlaces(pixels, block_x, n2, 1), ReadSuffix(pixels, block_x)>>

\* the data blocks from block `start` on, each as "<n><s>"
ReadItems(pixels, start, num_blocks) ==
    [j \in 1..(num_blocks - start) |->
        LET b == read_block(pixels, start + j - 1)
        IN  PyStr(b[1]) \o <<b[2]>>]

read_strip(im) ==
    LET num_blocks == im.w \div 10
        hdr == read_header(im, 0)
        start == IF Truthy(hdr[1]) \/ Truthy(hdr[2]) THEN 1 ELSE 0
    IN  IF num_blocks = 0 THEN <<None, None, << >>>>
        ELSE <<hdr[1], hdr[2], Join(ReadItems(im, start, num_blocks))>>

-----------------------------------------------------------------------------
(* Dictionaries: the rows "<id>\t<token>\t..." of the GOLD_*.txt files and *)
(* the maps the loader builds from them.  A later row overrides an earlier *)
(* one with the same key.  'fr', 'pt' and 'eng' have no file here and are  *)
(* not loaded.                                                             *)

GoldRows(lg) ==
    CASE lg = "es" -> << <<<<"5">>, <<"a">>>>, <<<<"1", "2">>, <<"a", "b">>>>,
                         <<<<"3">>, <<".">>>> >>
      [] lg = "zh" -> << <<<<"5">>, <<"a">>>>, <<<<"7">>, <<"B">>>>,
                         <<<<"0">>, <<".">>>> >>
      [] lg = "ar" -> << <<<<"7">>, <<"B">>>>, <<<<"5">>, <<"a">>>>,
                         <<<<"3">>, <<".">>>> >>
      [] OTHER -> << >>

LoadedLangs == {"es", "zh", "ar"}

\* enc: token -> id, as the rows <<token, id>> with the last row for a token
dicts_encode(lg) ==
    LET rows == GoldRows(lg)
    IN  {<<rows[i][2], PyInt(rows[i][1])>> : i \in
            {j \in 1..Len(rows) :
                \A k \in (j + 1)..Len(rows) : rows[k][2] # rows[j][2]}}

\* dec: id -> token
dicts_decode(lg) ==
    LET rows == GoldRows(lg)
    IN  {<<PyInt(rows[i][1]), rows[i][2]>> : i \in
            {j \in 1..Len(rows) :
                \A k \in (j + 1)..Len(rows) : PyInt(rows[k][1]) # PyInt(rows[j][1])}}

InDict(d, key) == \E e \in d : e[1] = key

Get(d, key) == (CHOOSE e \in d : e[1] = key)[2]

-----------------------------------------------------------------------------
(* tokenize                                                                *)

PUNCT == {".", ",", ";", ":", "!", "?", "(", ")", "\"", "'", "-"}

\* [a-zA-Z'] (with the Latin ranges À-ɏ), over the model's letters
IsLatin(ch) == IsLower(ch) \/ IsUpper(ch) \/ ch = "'"

\* [؀-ۿݐ-ݿ]: no character of the model's alphabet
IsArabic(ch) == FALSE

RECURSIVE RunEnd(_, _, _)
\* the end of the maximal run of class-k characters of s that starts at i
RunEnd(s, i, k) ==
    IF i + 1 <= Len(s) /\ ((k = "latin" /\ IsLatin(s[i + 1]))
                           \/ (k = "digit" /\ IsDigit(s[i + 1]))
                           \/ (k = "arabic" /\ IsArabic(s[i + 1])))
    THEN RunEnd(s, i + 1, k)
    ELSE i

RECURSIVE FindAll(_, _, _)
\* re.findall of the alternatives (in the order given) over s from i on
FindAll(s, i, arabicFirst) ==
    IF i > Len(s) THEN << >>
    ELSE LET kind == IF arabicFirst /\ IsArabic(s[i]) THEN "arabic"
                     ELSE IF arabicFirst /\ IsDigit(s[i]) THEN "digit"
                     ELSE IF IsLatin(s[i]) THEN "latin"
                     ELSE IF IsDigit(s[i]) THEN "digit"
                     ELSE IF s[i] \in PUNCT THEN "punct"
                     ELSE "none"
             j == IF kind \in {"latin", "digit", "arabic"} THEN RunEnd(s, i, kind)
                  ELSE i
         IN  (IF kind = "none" THEN << >> ELSE <<SubSeq(s, i, j)>>)
             \o FindAll(s, j + 1, arabicFirst)

tokenize(txt, lg) ==
    IF lg = "zh" THEN [i \in 1..Len(SelectSeq(txt, LAMBDA ch : ch # " ")) |->
                          <<SelectSeq(txt, LAMBDA ch : ch # " ")[i]>>]
    ELSE IF lg = "ar" THEN FindAll(txt, 1, TRUE)
    ELSE FindAll(LowerStr(txt), 1, FALSE)

-----------------------------------------------------------------------------
(* encode                                                                  *)

\* re.match(r'^[0-9]+$', t)
AllDigits(t) == t # << >> /\ \A i \in 1..Len(t) : IsDigit(t[i])

RawOf_NoExactCase(t, lg) ==
    LET enc == dicts_encode(lg)
        t_lower == IF lg # "zh" THEN LowerStr(t) ELSE t
    IN  IF AllDigits(t) THEN <<t \o <<"n">>>>
        ELSE IF InDict(enc, t_lower) THEN <<PyStr(Get(enc, t_lower)) \o <<"b">>>>
        ELSE << >>

\* phase 1, one token: the items appended to raw
RawOf(t, lg) ==
    LET enc == dicts_encode(lg)
        t_lower == IF lg # "zh" THEN LowerStr(t) ELSE t
    IN  IF AllDigits(t) THEN <<t \o <<"n">>>>
        ELSE IF InDict(enc, t_lower) THEN <<PyStr(Get(enc, t_lower)) \o <<"b">>>>
        ELSE IF InDict(enc, t) THEN <<PyStr(Get(enc, t)) \o <<"b">>>>
        ELSE << >>

RECURSIVE Phase1(_, _)
Phase1(tokens, lg) ==
    IF tokens = << >> THEN << >>
    ELSE RawOf(Head(tokens), lg) \o Phase1(Tail(tokens), lg)

\* phase 1: the tokens appended to not_found
NotFound(tokens, lg) ==
    SelectSeq(tokens, LAMBDA t : RawOf(t, lg) = << >>)

RECURSIVE RunLen_StopsShort(_, _, _)
RunLen_StopsShort(r, i, count) ==
    IF i + count < Len(r) /\ r[i + count] = r[i]
    THEN RunLen_StopsShort(r, i, count + 1)
    ELSE count

RECURSIVE RunLen(_, _, _)
\* the inner while: count the items equal to r[i] from i on
RunLen(r, i, count) ==
    IF i + count <= Len(r) /\ r[i + count] = r[i]
    THEN RunLen(r, i, count + 1)
    ELSE count

RECURSIVE Phase2(_, _)
\* phase 2: repetition compression, from index i on
Phase2(r, i) ==
    IF i > Len(r) THEN << >>
    ELSE LET count == RunLen(r, i, 1)
         IN  <<r[i]>>
             \o (IF count > 1 THEN <<PyStr(FromNat(count)) \o <<"r">>>> ELSE << >>)
             \o Phase2(r, i + count)

\* the locals of encode at its return
EncodeRun(txt, lg) ==
    IF lg \notin LoadedLangs
    THEN [raw |-> << >>, not_found |-> << >>, result |-> << >>]
    ELSE LET tokens == tokenize(txt, lg)
             r == Phase1(tokens, lg)
         IN  [raw |-> r, not_found |-> NotFound(tokens, lg), result |-> Phase2(r, 1)]

encode(txt, lg) == EncodeRun(txt, lg).result

-----------------------------------------------------------------------------
(* decode                                                                  *)

PUNCT_ATTACH_RIGHT == {".", ",", ";", ":", "!", "?", ")", "\"", "'", "-"}

DecodeSuffix(token) == LastIn(token, {"b", "n", "s", "r"}, None)

RECURSIVE Copies(_, _)
Copies(w, k) == IF k <= 0 THEN << >> ELSE <<w>> \o Copies(w, k - 1)

DecodeItem_DropsUnknown(ws, token, lg) ==
    LET num_str == SelectDigits(token)
        sfx == DecodeSuffix(token)
        tid == PyInt(num_str)
        dec == dicts_decode(lg)
    IN  IF num_str = << >> THEN ws
        ELSE IF sfx = "n" THEN Append(ws, PyStr(tid))
        ELSE IF sfx = "r"
             THEN (IF ws # << >> THEN ws \o Copies(ws[Len(ws)], ToNat(tid) - 1)
                                 ELSE ws)
        ELSE IF sfx = "s" THEN ws
        ELSE IF InDict(dec, tid) THEN Append(ws, Get(dec, tid))
        ELSE ws

\* one wire item: the word list after it
DecodeItem(ws, token, lg) ==
    LET num_str == SelectDigits(token)
        sfx == DecodeSuffix(token)
        tid == PyInt(num_str)
        dec == dicts_decode(lg)
    IN  IF num_str = << >> THEN ws
        ELSE IF sfx = "n" THEN Append(ws, PyStr(tid))
        ELSE IF sfx = "r"
             THEN (IF ws # << >> THEN ws \o Copies(ws[Len(ws)], ToNat(tid) - 1)
                                 ELSE ws)
        ELSE IF sfx = "s" THEN ws
        ELSE IF InDict(dec, tid) THEN Append(ws, Get(dec, tid))
        ELSE Append(ws, <<"[", "?">> \o PyStr(tid) \o <<"]">>)

RECURSIVE DecodeWords(_, _, _)
\* the loop over the items, from word list ws
DecodeWords(ws, tokens, lg) ==
    IF tokens = << >> THEN ws
    ELSE DecodeWords(DecodeItem(ws, Head(tokens), lg), Tail(tokens), lg)

RECURSIVE Parts(_, _, _)
\* the parts joined into the text: acc is ''.join(parts) so far
Parts(ws, i, acc) ==
    IF i > Len(ws) THEN acc
    ELSE LET w == ws[i]
             glue == \/ i = 1
                     \/ (Len(w) = 1 /\ w[1] \in PUNCT_ATTACH_RIGHT)
                     \/ (ws[i - 1] # << >> /\ ws[i - 1][Len(ws[i - 1])] = "(")
         IN  Parts(ws, i + 1, acc \o (IF glue THEN w ELSE <<" ">> \o w))

RECURSIVE SpacesEnd(_, _)
\* the end of the run of blanks of s that starts at i (i - 1 if none)
SpacesEnd(s, i) ==
    IF i <= Len(s) /\ s[i] = " " THEN SpacesEnd(s, i + 1) ELSE i - 1

RECURSIVE Capitalize(_, _)
\* re.sub(r'([.!?])\s+([a-z...])', group 1 + ' ' + upper(group 2)), from i on
Capitalize(s, i) ==
    IF i > Len(s) THEN << >>
    ELSE LET e == SpacesEnd(s, i + 1)
         IN  IF /\ s[i] \in {".", "!", "?"}
                /\ e >= i + 1
                /\ e + 1 <= Len(s)
                /\ IsLower(s[e + 1])
             THEN <<s[i], " ", UpperCh(s[e + 1])>> \o Capitalize(s, e + 2)
             ELSE <<s[i]>> \o Capitalize(s, i + 1)

RECURSIVE Concat(_)
Concat(ws) == IF ws = << >> THEN << >> ELSE Head(ws) \o Concat(Tail(ws))

Reconstruct(ws, lg) ==
    IF lg = "zh" THEN Concat(ws)
    ELSE IF ws = << >> THEN << >>
    ELSE LET t == Parts(ws, 1, << >>)
         IN  IF t = << >> THEN t
             ELSE Capitalize(<<UpperCh(t[1])>> \o Tail(t), 1)

decode_words(str, lg) ==
    IF lg \notin LoadedLangs THEN << >>
    ELSE DecodeWords(<< >>, Split(str, << >>), lg)

decode(str, lg) == Reconstruct(decode_words(str, lg), lg)

-----------------------------------------------------------------------------
(* The grid codec on its own: one value, one block.                        *)

\* the decimal places of a grid value: 0..NumPlaces (units .. billions)
NumPlaces == 9

TagLetters == {"b", "n", "r", "s"}

ValueOf(f) ==
    StripHigh([i \in 1..(NumPlaces + 1) |->
                  IF (i - 1) \in DOMAIN f THEN f[i - 1] ELSE 0])

\* the sets of places that carry the nonzero digits of a value drawn
PlaceSets == {Q \in SUBSET (0..NumPlaces) : Cardinality(Q) <= MaxNonzero}

\* the state before any call
IdleBut(n) ==
    /\ text = << >> /\ lang = None /\ raw = << >> /\ result = << >>
    /\ not_found = << >>
    /\ token_list = << >> /\ lang_arg = None /\ data_type = None
    /\ img = NewImage(0)
    /\ lang_r = None /\ dtype_r = None /\ content_r = << >>
    /\ numcode_str = << >> /\ words = << >> /\ decoded = << >>
    /\ number = n /\ suffix = None /\ cells = << >> /\ rb = <<<< >>, None>>

\* the ten-digit values without a zero digit that are drawn: 1111111111 ..
\* 9999999999, and those whose digits run cyclically through 1..9
DenseValues ==
    {[i \in 1..(NumPlaces + 1) |-> d] : d \in 1..9}
    \cup {[i \in 1..(NumPlaces + 1) |-> ((i + d) % 9) + 1] : d \in 1..9}

\* a value with at most MaxNonzero nonzero digits, or one without a zero digit
GridInit ==
    /\ pc = "grid"
    /\ \/ \E P \in PlaceSets : \E f \in [P -> 1..9] : IdleBut(ValueOf(f))
       \/ \E v \in DenseValues : IdleBut(v)

\* the cells create_strip computes for one data block (lines 247-256), for
\* the value and any tag letter
GridCells ==
    /\ pc = "grid"
    /\ \E sfx \in TagLetters :
          LET token == PyStr(number) \o <<sfx>>
          IN  /\ suffix' = sfx
              /\ token_list' = <<token>>
              /\ cells' = BlockCells(token)
    /\ pc' = "cells"
    /\ UNCHANGED <<text, lang, raw, result, not_found, lang_arg, data_type, img,
                   lang_r, dtype_r, content_r, numcode_str, words, decoded,
                   number, rb>>

\* one untagged data block as create_strip renders it, without a header
GridDraw ==
    /\ pc = "grid"
    /\ suffix' = "b"
    /\ token_list' = <<PyStr(number) \o <<"b">>>>
    /\ img' = create_strip(token_list', None, None)
    /\ pc' = "drawn"
    /\ UNCHANGED <<text, lang, raw, result, not_found, lang_arg, data_type,
                   lang_r, dtype_r, content_r, numcode_str, words, decoded,
                   number, cells, rb>>

GridRead ==
    /\ pc = "drawn"
    /\ rb' = read_block(img, 0)
    /\ pc' = "blockread"
    /\ UNCHANGED <<text, lang, raw, result, not_found, token_list, lang_arg,
                   data_type, img, lang_r, dtype_r, content_r, numcode_str,
                   words, decoded, number, suffix, cells>>

GridNext == GridDraw \/ GridRead

SpecGrid == GridInit /\ [][GridNext]_vars

BlockNext == GridCells

SpecBlock == GridInit /\ [][BlockNext]_vars

-----------------------------------------------------------------------------
(* The codec as its callers drive it: the interactive loop of main (encode *)
(* the line, render strip.png, read it back, decode what was read) and the *)
(* functions called directly.                                              *)

\* the characters an input text is drawn from
TextChars == {"a", "B", "0", "7", " ", "."}

\* the languages encode and decode are called with ('fr' is not loaded)
CallLangs == {"es", "zh", "ar", "fr"}

\* the wire items create_strip is handed directly
StripItems ==
    { <<"5", "b">>, <<"0", "b">>, <<"0", "0", "7", "n">>, <<"3", "r">>,
      <<"x">>, <<"5", "N">> }

\* the wire items decode is handed directly
WireItems ==
    { <<"5", "b">>, <<"9", "b">>, <<"0", "b">>, <<"0", "0", "7", "n">>,
      <<"3", "r">>, <<"2", "s">>, <<"7">>, <<"x">>, <<"5", "N">>, <<"n", "5">> }

\* the lang and data_type arguments create_strip is handed directly
LangArgs == {None, "", "ar", "zh", "fr", "pt", "es", "eng", "de"}

TypeArgs == {None, "bin", "enc", "so", "im", "xx"}

SeqsUpTo(S, n) == UNION {[1..k -> S] : k \in 0..n}

Init == pc = "idle" /\ IdleBut(<< >>)

\* encode(text, lang)
Encode ==
    /\ pc = "idle"
    /\ \E txt \in SeqsUpTo(TextChars, MaxText), lg \in CallLangs :
          /\ text' = txt
          /\ lang' = lg
          /\ \E run \in {EncodeRun(txt, lg)} :
                /\ raw' = run.raw
                /\ not_found' = run.not_found
                /\ result' = run.result
    /\ pc' = "encoded"
    /\ UNCHANGED <<token_list, lang_arg, data_type, img, lang_r, dtype_r,
                   content_r, numcode_str, words, decoded, number, suffix,
                   cells, rb>>

\* main: create_strip(ids, lang=lang), unless nothing was encoded
MainStrip ==
    /\ pc = "encoded"
    /\ result # << >>
    /\ token_list' = result
    /\ lang_arg' = lang
    /\ data_type' = None
    /\ img' = create_strip(result, lang, None)
    /\ pc' = "stripped"
    /\ UNCHANGED <<text, lang, raw, result, not_found, lang_r, dtype_r,
                   content_r, numcode_str, words, decoded, number, suffix,
                   cells, rb>>

\* create_strip(token_list, lang, data_type); an image of width 0 cannot be
\* saved
CreateStrip ==
    /\ pc = "idle"
    /\ \E tl \in SeqsUpTo(StripItems, MaxItems), lg \in LangArgs, dt \in TypeArgs :
          /\ StripTotal(tl, lg, dt) > 0
          /\ token_list' = tl
          /\ lang_arg' = lg
          /\ data_type' = dt
          /\ img' = create_strip(tl, lg, dt)
    /\ pc' = "stripped"
    /\ UNCHANGED <<text, lang, raw, result, not_found, lang_r, dtype_r,
                   content_r, numcode_str, words, decoded, number, suffix,
                   cells, rb>>

\* read_strip()
ReadStrip ==
    /\ pc = "stripped"
    /\ \E r \in {read_strip(img)} :
          /\ lang_r' = r[1]
          /\ dtype_r' = r[2]
          /\ content_r' = r[3]
    /\ pc' = "read"
    /\ UNCHANGED <<text, lang, raw, result, not_found, token_list, lang_arg,
                   data_type, img, numcode_str, words, decoded, number, suffix,
                   cells, rb>>

\* main: decode(content_r, lang_r) when the strip names a language
MainDecode ==
    /\ pc = "read"
    /\ Truthy(lang_r)
    /\ numcode_str' = content_r
    /\ \E ws \in {decode_words(content_r, lang_r)} :
          /\ words' = ws
          /\ decoded' = Reconstruct(ws, lang_r)
    /\ pc' = "decoded"
    /\ UNCHANGED <<text, lang, raw, result, not_found, token_list, lang_arg,
                   data_type, img, lang_r, dtype_r, content_r, number, suffix,
                   cells, rb>>

\* decode(numcode_str, lang)
Decode ==
    /\ pc = "idle"
    /\ \E tl \in SeqsUpTo(WireItems, MaxItems), lg \in CallLangs :
          /\ numcode_str' = Join(tl)
          /\ lang' = lg
          /\ \E ws \in {decode_words(Join(tl), lg)} :
                /\ words' = ws
                /\ decoded' = Reconstruct(ws, lg)
    /\ pc' = "called"
    /\ UNCHANGED <<text, raw, result, not_found, token_list, lang_arg,
                   data_type, img, lang_r, dtype_r, content_r, number, suffix,
                   cells, rb>>

Next ==
    \/ Encode
    \/ MainStrip
    \/ CreateStrip
    \/ ReadStrip
    \/ MainDecode
    \/ Decode

Spec == Init /\ [][Next]_vars

-----------------------------------------------------------------------------
(* Properties of the grid codec.                                           *)

\* the ink pixels of a list of cells in block block_x
CellPixels(cs, block_x) ==
    {<<block_x * 10 + (cs[i][2] - 1), cs[i][1] - 1>> : i \in 1..Len(cs)}

Box(rows, cols) == {<<r, c>> : r \in rows, c \in cols}

\* the cell groups of a block, as the protocol lays them out
UnitsGroup == Box(14..16, 7..9)
TensLowGroup == Box(13..17, {6})
TensHighGroup == Box({12}, 6..9)
PlaceGroup(col) == Box(3..11, {col})
TagGroup == Box({13}, 7..9)
HeaderLangGroup == Box({1}, 5..10)
HeaderTypeGroup == Box({18}, 6..9)

\* place index k |-> its column, hundreds through billions
PlaceColumn == [k \in 2..9 |-> <<7, 8, 9, 6, 5, 4, 3, 2>>[k - 1]]

AllGroups ==
    <<UnitsGroup, TensLowGroup, TensHighGroup, TagGroup,
      HeaderLangGroup, HeaderTypeGroup>>
    \o [k \in 1..8 |-> PlaceGroup(PlaceColumn[k + 1])]

GroupsDisjoint ==
    \A i, j \in 1..Len(AllGroups) : i # j => AllGroups[i] \cap AllGroups[j] = {}

Nonzeros(n) == Cardinality({i \in 1..Len(n) : n[i] # 0})

\* 0 <= n <= 9,999,999,999
InGridRange(n) == Len(n) <= 10

CellSet(cs) == {cs[i] : i \in 1..Len(cs)}

Count(S, present) == Cardinality(S) = (IF present THEN 1 ELSE 0)

\* C1: a block whose active cells are exactly id_to_cells(v), for
\* 0 <= v <= 9,999,999,999 and no tag marker, is read back by read_block as
\* (v, 'b').
C1_GridRoundTrip ==
    (/\ pc = "blockread"
     /\ InGridRange(number)
     /\ img.ink = CellPixels(id_to_cells(number), 0))
    => rb = <<number, "b">>

C1_Witness ==
    /\ pc = "blockread"
    /\ number = <<9, 9, 9, 9, 9, 9, 9, 9, 9, 9>>
    /\ img.ink = CellPixels(id_to_cells(number), 0)
    /\ Cardinality(img.ink) = 10

\* C10: the cells of one data block (id_to_cells(v) plus the tag marker
\* create_strip adds) lie inside rows 1-20 and columns 1-10, hold exactly one
\* cell of a digit group when that digit of v is nonzero and none otherwise,
\* at most one tag-marker cell (none for 'b'), the groups (with the header's
\* language and data-type cells) are pairwise disjoint, and the number of lit
\* digit cells is the number of nonzero decimal digits of v.
C10_BlockWellFormed ==
    (pc = "cells" /\ InGridRange(number)) =>
        LET lit == CellSet(cells)
            digits == lit \ TagGroup
        IN  /\ lit \subseteq Box(1..20, 1..10)
            /\ GroupsDisjoint
            /\ Count(lit \cap UnitsGroup, DigitAt(number, 0) # 0)
            /\ Count(lit \cap (TensLowGroup \cup TensHighGroup),
                     DigitAt(number, 1) # 0)
            /\ Count(lit \cap TensLowGroup, DigitAt(number, 1) \in 1..5)
            /\ Count(lit \cap TensHighGroup, DigitAt(number, 1) \in 6..9)
            /\ \A k \in 2..9 :
                  Count(lit \cap PlaceGroup(PlaceColumn[k]), DigitAt(number, k) # 0)
            /\ Count(lit \cap TagGroup, suffix # "b")
            /\ lit \cap (HeaderLangGroup \cup HeaderTypeGroup) = {}
            /\ Cardinality(digits) = Nonzeros(number)
            /\ Len(cells) = Cardinality(lit)

C10_Witness ==
    /\ pc = "cells"
    /\ number = <<0, 6, 0, 0, 0, 1>>
    /\ suffix = "r"
    /\ Cardinality(CellSet(cells)) = 3

-----------------------------------------------------------------------------
(* Properties of the strip codec.                                          *)

\* C2: for a wire sequence W returned by encode and the language it was
\* encoded for, read_strip of the bitmap written by create_strip(W, lang)
\* returns W joined by single spaces, item for item.
C2_StripRoundTrip ==
    (pc = "read" /\ result # << >> /\ token_list = result /\ lang_arg = lang)
    => content_r = Join(result)

HeaderLangs == {"ar", "zh", "fr", "pt", "es", "eng"}

HeaderTypes == {"bin", "enc", "so", "im"}

\* C3: a strip rendered with a language L of the header table and a data
\* type that is absent or of the table parses to exactly L and that data
\* type, whatever the wire sequence.
C3_HeaderRoundTrip ==
    (pc = "read" /\ lang_arg \in HeaderLangs /\ data_type \in HeaderTypes \cup {None})
    => (lang_r = lang_arg /\ dtype_r = data_type)

C3_Witness ==
    /\ pc = "read"
    /\ lang_arg = "pt"
    /\ data_type = "so"
    /\ Len(token_list) = 2
    /\ lang_r = "pt"
    /\ dtype_r = "so"

\* C9: for any lang and data_type arguments and any wire sequence of n items
\* with digits, read_strip returns exactly n data items: a rendered header is
\* consumed and not counted as data, and without a header block 0 is data.
C9_HeaderDataAlignment ==
    (pc = "read" /\ \A i \in 1..Len(token_list) : SelectDigits(token_list[i]) # << >>)
    => Len(Split(content_r, << >>)) = Len(token_list)

-----------------------------------------------------------------------------
(* Properties of encode.                                                   *)

IsRunStart(r, i) == i = 1 \/ r[i] # r[i - 1]

\* the length of the maximal run of equal items of r that starts at i
MaximalRun(r, i) ==
    (CHOOSE j \in i..Len(r) :
        /\ \A m \in i..j : r[m] = r[i]
        /\ (j = Len(r) \/ r[j + 1] # r[i])) - i + 1

RepeatItem(k) == PyStr(FromNat(k)) \o <<"r">>

RECURSIVE RunsCompressed(_, _)
\* X for a run of one, X and 'kr' for a maximal run of k >= 2, run by run
RunsCompressed(r, i) ==
    IF i > Len(r) THEN << >>
    ELSE (IF ~IsRunStart(r, i) THEN << >>
          ELSE IF MaximalRun(r, i) >= 2 THEN <<r[i], RepeatItem(MaximalRun(r, i))>>
          ELSE <<r[i]>>)
         \o RunsCompressed(r, i + 1)

\* C4: encode puts out every maximal run of k >= 2 identical raw items X as
\* exactly X, 'kr' and a run of one as X; the compressed sequence decodes to
\* the word list of the raw sequence, and X, 'kr' to k copies of X's word.
C4_RunLengthLaw ==
    (pc = "encoded" /\ lang \in LoadedLangs) =>
        /\ result = RunsCompressed(raw, 1)
        /\ decode_words(Join(result), lang) = decode_words(Join(raw), lang)
        /\ \A i \in 1..Len(raw) :
              IsRunStart(raw, i) /\ MaximalRun(raw, i) >= 2 =>
                 decode_words(Join(<<raw[i], RepeatItem(MaximalRun(raw, i))>>), lang)
                 = [j \in 1..MaximalRun(raw, i) |-> decode_words(raw[i], lang)[1]]

C4_Witness ==
    /\ pc = "encoded"
    /\ lang = "es"
    /\ raw = <<<<"5", "b">>, <<"5", "b">>, <<"7", "n">>>>
    /\ result = <<<<"5", "b">>, <<"2", "r">>, <<"7", "n">>>>

\* the Lexicon's id for a token: the entry of its lowercase form (of the
\* token itself in Chinese), else the entry of the token as written
LexiconKeys(lg) == {GoldRows(lg)[i][2] : i \in 1..Len(GoldRows(lg))}

LexiconId(t, lg) ==
    LET rows == GoldRows(lg)
        key == IF lg # "zh" /\ LowerStr(t) \in LexiconKeys(lg) THEN LowerStr(t) ELSE t
    IN  rows[CHOOSE i \in 1..Len(rows) : rows[i][2] = key][1]

IsDigitRun(t) == Len(t) >= 1 /\ \A i \in 1..Len(t) : t[i] \in DigitSet

InLexicon(t, lg) ==
    t \in LexiconKeys(lg) \/ (lg # "zh" /\ LowerStr(t) \in LexiconKeys(lg))

\* C5: before compression the wire sequence holds, in token order, exactly
\* one '<digits>n' for each digit-run token, exactly one '<id>b' for each
\* other token found in the Lexicon and nothing for the others, which are
\* only listed as not found.
C5_EncoderLookup ==
    (pc = "encoded" /\ lang \in LoadedLangs) =>
        LET tokens == tokenize(text, lang)
            kept == SelectSeq(tokens, LAMBDA t : IsDigitRun(t) \/ InLexicon(t, lang))
        IN  /\ Len(raw) = Len(kept)
            /\ \A i \in 1..Len(kept) :
                  raw[i] = IF IsDigitRun(kept[i]) THEN kept[i] \o <<"n">>
                           ELSE LexiconId(kept[i], lang) \o <<"b">>
            /\ not_found =
                  SelectSeq(tokens, LAMBDA t : ~(IsDigitRun(t) \/ InLexicon(t, lang)))

C5_Witness ==
    /\ pc = "encoded"
    /\ lang = "ar"
    /\ text = <<"a", "B", "7", "B">>
    /\ raw = <<<<"7", "n">>, <<"7", "b">>>>
    /\ not_found = <<<<"a", "B">>>>

-----------------------------------------------------------------------------
(* Properties of decode.                                                   *)

\* the language of the decode call that ended in this state
DecodeLang == IF pc = "called" THEN lang ELSE lang_r

Decoded == pc \in {"called", "decoded"} /\ DecodeLang \in LoadedLangs

WireIds(lg) == {PyInt(GoldRows(lg)[i][1]) : i \in 1..Len(GoldRows(lg))}

\* an item with digits and no tag letter other than b, in either case
IsDictionaryItem(item) ==
    /\ SelectDigits(item) # << >>
    /\ \A i \in 1..Len(item) : item[i] \notin {"n", "r", "s", "N", "R", "S"}

Placeholder(item) == <<"[", "?">> \o PyStr(PyInt(SelectDigits(item))) \o <<"]">>

\* the words decode has appended after the first i items
WordsAfter(items, i, lg) == decode_words(Join(SubSeq(items, 1, i)), lg)

\* an item of the language's Lexicon and the word it stands for
KnownItem(lg) == GoldRows(lg)[1][1] \o <<"b">>

KnownWord(lg) == GoldRows(lg)[1][2]

\* C6: for a Dictionary item whose id is not in the reverse Lexicon decode
\* appends exactly the placeholder '[?id]' at that position, and decodes the
\* other items as it does when that id is known: the word lists differ only
\* where the placeholder stands for the known word.
C6_UnknownIdPlaceholder ==
    Decoded =>
        LET items == Split(numcode_str, << >>)
            lg == DecodeLang
        IN  \A i \in 1..Len(items) :
              (IsDictionaryItem(items[i]) /\ PyInt(SelectDigits(items[i])) \notin WireIds(lg))
              => LET known == decode_words(
                                Join([j \in 1..Len(items) |->
                                         IF j = i THEN KnownItem(lg) ELSE items[j]]), lg)
                 IN  /\ WordsAfter(items, i, lg)
                        = Append(WordsAfter(items, i - 1, lg), Placeholder(items[i]))
                     /\ Len(words) = Len(known)
                     /\ \A p \in 1..Len(words) :
                           \/ words[p] = known[p]
                           \/ words[p] = Placeholder(items[i]) /\ known[p] = KnownWord(lg)

C6_Witness ==
    /\ pc = "called"
    /\ lang = "es"
    /\ numcode_str = <<"9", "b", " ", "5", "b">>
    /\ words = <<<<"[", "?", "9", "]">>, <<"a">>>>

\* an item '<digits>n'
IsLiteralItem(item) ==
    /\ Len(item) >= 2
    /\ item[Len(item)] = "n"
    /\ \A i \in 1..(Len(item) - 1) : item[i] \in DigitSet

\* C7: for every wire item '<digits>n' decode appends as a word exactly the
\* digit string the item carries, character for character.
C7_LiteralVerbatim ==
    Decoded =>
        LET items == Split(numcode_str, << >>)
        IN  \A i \in 1..Len(items) :
              IsLiteralItem(items[i]) =>
                 WordsAfter(items, i, DecodeLang)
                 = Append(WordsAfter(items, i - 1, DecodeLang),
                          SubSeq(items[i], 1, Len(items[i]) - 1))

\* an item with its tag letter moved to the end, in lowercase ('b' if none)
Canonical(item) ==
    LET tags == SelectSeq(LowerStr(item), LAMBDA ch : ch \in {"b", "n", "s", "r"})
    IN  SelectDigits(item) \o (IF tags = << >> THEN <<"b">> ELSE <<tags[Len(tags)]>>)

\* C8: decode classifies an item by its tag letter among b, n, s, r in
\* either case and at any position, takes an item without a tag letter for
\* Dictionary and skips an item without digits: a wire text decodes as its
\* items with digits, each in canonical form, do.
C8_TagClassification ==
    Decoded =>
        LET items == Split(numcode_str, << >>)
            digits == SelectSeq(items, LAMBDA it : SelectDigits(it) # << >>)
        IN  words = decode_words(Join([j \in 1..Len(digits) |-> Canonical(digits[j])]),
                                 DecodeLang)

=============================================================================
